---- MODULE Spec2Model ----
(***************************************************************************)
(* spdtest: the libuv/libcurl transfer engine of src/main.c.               *)
(*                                                                         *)
(* The engine code (handlers, callbacks, run setup and teardown) is        *)
(* translated from src/main.c.  libcurl's multi interface and libuv are    *)
(* the environment: they are modelled by their documented contract, at the *)
(* call sites of main.c:                                                   *)
(*   - curl_multi_socket_action reports the number of registered transfers *)
(*     that have not completed; a completed transfer queues one message    *)
(*     that curl_multi_info_read returns once;                             *)
(*   - the socket callback and the timer callback are invoked              *)
(*     synchronously from inside curl_multi_socket_action and              *)
(*     curl_multi_add_handle;                                              *)
(*   - a libcurl API call made from inside one of its callbacks is either  *)
(*     executed (builds without the recursion guard) or refused with       *)
(*     CURLM_RECURSIVE_API_CALL (builds with it): curl_guard;              *)
(*   - uv_run(UV_RUN_DEFAULT) returns when no handle is active or closing. *)
(* Transfer i uses socket descriptor i.                                    *)
(***************************************************************************)
EXTENDS Integers, Sequences, FiniteSets, TLC

\* Bounds of the model.
MaxConn == 2        \* num_connections ranges over 1..MaxConn (the program allows 1..10)
BufLen == 2         \* length of the shared upload buffer (the program uses 10 MiB)
MaxBytes == 2       \* cap on total_downloaded_bytes
MaxDepth == 1       \* nesting depth of curl_multi_socket_action calls
MaxFaults == 1      \* failing calls (malloc, uv_poll_init_socket, ...) per process

\* Program constants.
MAX_CONNECTIONS == 10

Conn == 1..MaxConn

VARIABLES
    pending,                    \* tests still to run: arguments.download_test / upload_test
    num_connections,            \* arguments.connections
    curl_guard,                 \* the libcurl build refuses API calls made from callbacks
    pc,                         \* position of main / perform_*_test
    test,                       \* the run in progress: "none", "download", "upload"
    idx,                        \* loop variable i of the setup loop (1-based)
    successfully_added_handles,
    test_duration_timer,        \* "off", "active", "inactive", "closed"
    shared_upload_data,         \* "none", "allocated", "freed"
    report,                     \* arguments of print_test_results, or "none"
    outcome,                    \* "none", "aborted", "reported", "rejected"
    last,                       \* what produced the state: "pump" (a reactor handler), "add", "other"
    running_handles,
    timeout_timer,              \* the pending firings of timeout_timer, in order
    poll,                       \* uv_poll_t of each descriptor
    poll_handles,               \* the live uv_poll_t handles: [id, fd]
    socketp,                    \* libcurl's back-reference for each descriptor: a handle id, 0 for NULL
    closing,                    \* uv_poll_t handles closed, close callback not yet run
    easy,                       \* state of each easy handle
    result,                     \* completion code of each transfer
    csock,                      \* what libcurl last asked for on each transfer's socket
    ctimer,                     \* libcurl counts on a pending application timer
    bytes_sent,                 \* stream_contexts[i].bytes_sent
    total_downloaded_bytes,
    msgs_read,                  \* CURLMSG_DONE messages read by the latest check_multi_info
    faults                      \* failing calls so far

runRest == <<pending, num_connections, curl_guard, pc, test, idx,
             successfully_added_handles, test_duration_timer,
             shared_upload_data, report, outcome>>

runVars == <<runRest, last>>

engVars == <<running_handles, timeout_timer, poll, poll_handles, socketp, closing, easy,
             result,
             csock, ctimer, bytes_sent, total_downloaded_bytes, msgs_read, faults>>

vars == <<runVars, engVars>>

Interest == {"in", "out", "inout"}

\* The engine and subsystem state the callbacks work on, as one record.
State ==
    [running_handles |-> running_handles, timeout_timer |-> timeout_timer,
     poll |-> poll, poll_handles |-> poll_handles, socketp |-> socketp,
     closing |-> closing, easy |-> easy,
     result |-> result, csock |-> csock, ctimer |-> ctimer,
     bytes_sent |-> bytes_sent, total_downloaded_bytes |-> total_downloaded_bytes,
     msgs_read |-> msgs_read, faults |-> faults]

Commit(s) ==
    /\ running_handles' = s.running_handles
    /\ timeout_timer' = s.timeout_timer
    /\ poll' = s.poll
    /\ poll_handles' = s.poll_handles
    /\ socketp' = s.socketp
    /\ closing' = s.closing
    /\ easy' = s.easy
    /\ result' = s.result
    /\ csock' = s.csock
    /\ ctimer' = s.ctimer
    /\ bytes_sent' = s.bytes_sent
    /\ total_downloaded_bytes' = s.total_downloaded_bytes
    /\ msgs_read' = s.msgs_read
    /\ faults' = s.faults

Min(a, b) == IF a < b THEN a ELSE b

\* Transfers registered with the multi handle that have not completed.
InFlight(s) == {i \in Conn : s.easy[i] = "added"}

\* The running_handles output of curl_multi_socket_action.
StillRunning(s) == Cardinality(InFlight(s))

(***************************************************************************)
(* libuv timers.  A timer is the sequence of its pending firings.          *)
(***************************************************************************)

uv_is_active(timer) == timer # <<>>

\* Faulty variant of uv_timer_stop: the pending firing stays.
uv_timer_stop_keeps(timer) == timer

uv_timer_stop(timer) == <<>>

\* Faulty variant of uv_timer_start: the new firing is added to the pending one.
uv_timer_start_stacks(timer, timeout, repeat) ==
    Append(timer, [timeout |-> timeout, repeat |-> repeat])

\* uv_timer_start(handle, cb, timeout, repeat): a timer that is active is stopped
\* first, so the new firing replaces the pending one.
uv_timer_start(timer, timeout, repeat) ==
    <<[timeout |-> timeout, repeat |-> repeat]>>

\* The first pending firing is due and its callback is about to run: a one-shot
\* firing is gone, a repeating one stays pending.
uv_timer_expire(timer) ==
    IF Head(timer).repeat = 0 THEN Tail(timer) ELSE timer

(***************************************************************************)
(* Callbacks the subsystem invokes.                                        *)
(***************************************************************************)

\* malloc(sizeof(uv_poll_t)): a handle that is not live; handles are named by
\* the least free number.
malloc(s) ==
    LET ids == {h.id : h \in s.poll_handles}
    IN  CHOOSE n \in 1..(Cardinality(ids) + 1) :
            n \notin ids /\ \A m \in 1..(n - 1) : m \in ids

\* Faulty variants of curl_perform_socket_action, told apart by v.
\*   "keeps_ref": a removal leaves libcurl's back-reference in place.
\*   "realloc":   a request for a descriptor that has a watcher allocates another.
\*   "additive":  uv_poll_start adds the events to those already polled.
\*   "releases":  a request with no events closes the watcher as a removal does.
\*   "leaks":     a handle that libcurl refused to store is not closed.
socket_action_variant(s, sockfd, action, fault, v) ==
    LET had == s.socketp[sockfd] # 0
        closed == [s EXCEPT !.poll[sockfd] = "absent",
                            !.poll_handles = {h \in @ : h.id # s.socketp[sockfd]},
                            !.socketp[sockfd] = IF v = "keeps_ref" THEN @ ELSE 0,
                            !.closing = @ + 1]
        both == IF v = "additive" /\ s.poll[sockfd] \in Interest \ {action}
                THEN "inout" ELSE action
        fresh == IF had /\ v # "realloc" THEN s
                 ELSE [s EXCEPT !.poll[sockfd] = "stopped",
                                !.poll_handles = @ \cup {[id |-> malloc(s), fd |-> sockfd]},
                                !.socketp[sockfd] = malloc(s)]
    IN  IF action = "remove"
        THEN [rc |-> 0, s |-> IF had THEN closed ELSE s]
        ELSE IF ~had /\ fault \in {"malloc", "init"}
        THEN [rc |-> -1, s |-> s]
        ELSE IF ~had /\ fault = "assign"
        THEN [rc |-> -1,
              s |-> IF v = "leaks"
                    THEN [s EXCEPT !.poll_handles =
                                       @ \cup {[id |-> malloc(s), fd |-> sockfd]}]
                    ELSE [s EXCEPT !.closing = @ + 1]]
        ELSE IF action \in Interest
        THEN IF fault = "start"
             THEN IF ~had
                  THEN [rc |-> -1, s |-> [s EXCEPT !.closing = @ + 1]]
                  ELSE [rc |-> 0, s |-> fresh]
             ELSE [rc |-> 0, s |-> [fresh EXCEPT !.poll[sockfd] = both]]
        ELSE IF v = "releases" /\ had
        THEN [rc |-> 0, s |-> closed]
        ELSE [rc |-> 0, s |-> [fresh EXCEPT !.poll[sockfd] = "stopped"]]

curl_perform_socket_action_keeps_ref(s, sockfd, action, fault) ==
    socket_action_variant(s, sockfd, action, fault, "keeps_ref")

curl_perform_socket_action_realloc(s, sockfd, action, fault) ==
    socket_action_variant(s, sockfd, action, fault, "realloc")

curl_perform_socket_action_additive(s, sockfd, action, fault) ==
    socket_action_variant(s, sockfd, action, fault, "additive")

curl_perform_socket_action_releases(s, sockfd, action, fault) ==
    socket_action_variant(s, sockfd, action, fault, "releases")

curl_perform_socket_action_leaks(s, sockfd, action, fault) ==
    socket_action_variant(s, sockfd, action, fault, "leaks")

\* curl_perform_socket_action(easy, sockfd, action, userp, socketp): the socket
\* callback.  action is "remove", "none" or an interest; fault names the call that
\* fails in this invocation ("no" for none).  Gives the return code and the state.
curl_perform_socket_action(s, sockfd, action, fault) ==
    LET had == s.socketp[sockfd] # 0
        closed == [s EXCEPT !.poll[sockfd] = "absent",
                            !.poll_handles = {h \in @ : h.id # s.socketp[sockfd]},
                            !.socketp[sockfd] = 0,
                            !.closing = @ + 1]
        fresh == IF had THEN s
                 ELSE [s EXCEPT !.poll[sockfd] = "stopped",
                                !.poll_handles = @ \cup {[id |-> malloc(s), fd |-> sockfd]},
                                !.socketp[sockfd] = malloc(s)]
    IN  IF action = "remove"
        THEN [rc |-> 0, s |-> IF had THEN closed ELSE s]
        ELSE IF ~had /\ fault \in {"malloc", "init"}
        THEN [rc |-> -1, s |-> s]
        ELSE IF ~had /\ fault = "assign"
        THEN [rc |-> -1, s |-> [s EXCEPT !.closing = @ + 1]]
        ELSE IF action \in Interest
        THEN IF fault = "start"
             THEN IF ~had
                  THEN [rc |-> -1, s |-> [s EXCEPT !.closing = @ + 1]]
                  ELSE [rc |-> 0, s |-> fresh]
             ELSE [rc |-> 0, s |-> [fresh EXCEPT !.poll[sockfd] = action]]
        ELSE [rc |-> 0, s |-> [fresh EXCEPT !.poll[sockfd] = "stopped"]]

\* Faulty variant of curl_read_callback: the copy is not limited to what remains.
curl_read_callback_unclamped(s, i, size, nitems) ==
    LET to_copy == size * nitems
    IN  [ret |-> to_copy,
         s |-> IF to_copy > 0 THEN [s EXCEPT !.bytes_sent[i] = @ + to_copy] ELSE s]

\* Faulty variant of curl_read_callback: the last byte of the buffer is never sent.
curl_read_callback_short(s, i, size, nitems) ==
    LET remaining_in_stream == BufLen - s.bytes_sent[i] - 1
        to_copy == IF remaining_in_stream < 0 THEN 0
                   ELSE Min(size * nitems, remaining_in_stream)
    IN  [ret |-> to_copy,
         s |-> IF to_copy > 0 THEN [s EXCEPT !.bytes_sent[i] = @ + to_copy] ELSE s]

\* Faulty variant of curl_read_callback: at the end of the buffer the stream starts
\* over.
curl_read_callback_restarts(s, i, size, nitems) ==
    LET remaining_in_stream == BufLen - s.bytes_sent[i]
        to_copy == Min(size * nitems, remaining_in_stream)
    IN  [ret |-> to_copy,
         s |-> IF to_copy > 0 THEN [s EXCEPT !.bytes_sent[i] = @ + to_copy]
               ELSE [s EXCEPT !.bytes_sent[i] = 0]]

\* curl_read_callback(dest_buffer, size, nitems, userp) for stream i: the number of
\* bytes copied and the state.
curl_read_callback(s, i, size, nitems) ==
    LET buffer_max_provide == size * nitems
        remaining_in_stream == BufLen - s.bytes_sent[i]
        to_copy == Min(buffer_max_provide, remaining_in_stream)
    IN  [ret |-> to_copy,
         s |-> IF to_copy > 0 THEN [s EXCEPT !.bytes_sent[i] = @ + to_copy] ELSE s]

\* curl_write_callback(ptr, size, nmemb, userdata).
curl_write_callback(s, size, nmemb) ==
    LET received_bytes == size * nmemb
    IN  [ret |-> received_bytes,
         s |-> [s EXCEPT !.total_downloaded_bytes = @ + received_bytes]]

\* Faulty variant of check_multi_info: the messages are read and the handles
\* removed, running_handles is left as the pump reported it.
check_multi_info_uncounted(s) ==
    LET done == {i \in Conn : s.easy[i] = "done"}
        s1 == [s EXCEPT !.easy = [i \in Conn |->
                                    IF i \in done THEN "removed" ELSE s.easy[i]],
                        !.msgs_read = Cardinality(done)]
    IN  {IF s1.running_handles = 0 /\ uv_is_active(s1.timeout_timer)
         THEN [s1 EXCEPT !.timeout_timer = uv_timer_stop(@)]
         ELSE s1}

\* Faulty variant of check_multi_info: a message that was read stays in the queue
\* and its handle stays in the multi handle.
check_multi_info_rereads(s) ==
    LET done == {i \in Conn : s.easy[i] = "done"}
        s1 == [s EXCEPT !.running_handles = @ - Cardinality(done),
                        !.msgs_read = Cardinality(done)]
    IN  {IF s1.running_handles = 0 /\ uv_is_active(s1.timeout_timer)
         THEN [s1 EXCEPT !.timeout_timer = uv_timer_stop(@)]
         ELSE s1}

\* check_multi_info(): reads every pending CURLMSG_DONE message and removes its
\* handle from the multi handle.  Removing the last transfer lets libcurl delete
\* its timer (timer callback, -1).
check_multi_info(s) ==
    LET done == {i \in Conn : s.easy[i] = "done"}
        current_running_handles == s.running_handles - Cardinality(done)
        s1 == [s EXCEPT !.easy = [i \in Conn |->
                                    IF i \in done THEN "removed" ELSE s.easy[i]],
                        !.running_handles = current_running_handles,
                        !.msgs_read = Cardinality(done)]
        after == IF done # {} /\ InFlight(s1) = {} /\ s1.ctimer
                 THEN {s1, [s1 EXCEPT !.ctimer = FALSE,
                                      !.timeout_timer = uv_timer_stop(@)]}
                 ELSE {s1}
    IN  {IF q.running_handles = 0 /\ uv_is_active(q.timeout_timer)
         THEN [q EXCEPT !.timeout_timer = uv_timer_stop(@)]
         ELSE q : q \in after}

(***************************************************************************)
(* The subsystem: one call of curl_multi_socket_action.                    *)
(***************************************************************************)

Option(k, a, f, n, r) == [k |-> k, a |-> a, f |-> f, n |-> n, r |-> r]

Timeout == [kind |-> "timeout", fd |-> 0, events |-> {}]

SocketReady(fd, events) == [kind |-> "socket", fd |-> fd, events |-> events]

\* What transfer i may do in one call: ask for another interest on its socket,
\* move data when the socket is ready for it, or complete.  A call the callback
\* makes may fail (fault) in a call made by the reactor.
Options(s, i, trigger, depth) ==
    LET faulty == IF depth > 0 \/ s.faults >= MaxFaults THEN {"no"}
                  ELSE {"no", "start"} \cup
                       (IF s.socketp[i] # 0 THEN {} ELSE {"malloc", "init", "assign"})
        watch == {Option("watch", a, f, 0, "none") :
                    a \in Interest \ {s.csock[i]}, f \in faulty}
                 \cup (IF s.csock[i] \in Interest
                       THEN {Option("watch", "none", "no", 0, "none")} ELSE {})
        ready == IF test = "upload" THEN "writable" \in trigger.events
                 ELSE "readable" \in trigger.events
        data == IF ~ready THEN {}
                ELSE IF test = "upload"
                THEN {Option("data", "none", "no", n, "none") : n \in 0..(BufLen + 1)}
                ELSE IF s.total_downloaded_bytes < MaxBytes
                THEN {Option("data", "none", "no", 1, "none")}
                ELSE {}
        finish == {Option("done", "none", "no", 0, r) :
                     r \in {"fail"} \cup (IF s.csock[i] = "unopened" THEN {} ELSE {"ok"})}
    IN  watch \cup data \cup finish

\* Transfer i completes with code r: its socket is removed, its message queued.
Complete(s, i, r) ==
    LET t == IF s.csock[i] = "unopened" THEN s
             ELSE curl_perform_socket_action(s, i, "remove", "no").s
    IN  [t EXCEPT !.easy[i] = "done", !.result[i] = r, !.csock[i] = "unopened"]

\* A socket callback that returns -1 makes the subsystem fail the transfer.
TransferStep(s, i, o) ==
    IF o.k = "watch"
    THEN LET c == curl_perform_socket_action(s, i, o.a, o.f)
             n == IF o.f = "no" THEN 0 ELSE 1
         IN  IF c.rc = 0
             THEN [c.s EXCEPT !.csock[i] = o.a, !.faults = @ + n]
             ELSE [c.s EXCEPT !.easy[i] = "done", !.result[i] = "fail",
                              !.csock[i] = "unopened", !.faults = @ + n]
    ELSE IF o.k = "data"
    THEN IF test = "upload"
         THEN curl_read_callback(s, i, 1, o.n).s
         ELSE curl_write_callback(s, 1, o.n).s
    ELSE Complete(s, i, o.r)

RECURSIVE FailAll(_, _)
FailAll(s, T) ==
    IF T = {} THEN s
    ELSE LET i == CHOOSE j \in T : TRUE
         IN  FailAll(Complete(s, i, "fail"), T \ {i})

\* The transfers' progress in one call: nothing, or one transfer takes a step (the
\* owner of the ready socket, or any transfer when a deadline expired), and in a
\* deadline call of the reactor any of the others time out.  again: the call left
\* its work undone, libcurl may ask to be called again at once.
Progress(s, trigger, depth) ==
    LET movers == IF trigger.kind = "socket" THEN InFlight(s) \cap {trigger.fd}
                  ELSE InFlight(s)
        others(i) == IF trigger.kind = "timeout" /\ depth = 0
                     THEN SUBSET (InFlight(s) \ {i}) ELSE {{}}
    IN  {[s |-> s, again |-> TRUE]} \cup
        {[s |-> FailAll(TransferStep(s, x[1], x[2]), x[3]), again |-> FALSE] :
            x \in UNION {{<<i, o, T>> : o \in Options(s, i, trigger, depth),
                                         T \in others(i)} : i \in movers}}

RECURSIVE Pump(_, _, _), handle_curl_timeout(_, _, _), TimerUpdate(_, _, _)

\* handle_curl_timeout(multi, timeout_ms, userp): the timer callback.  A nested
\* curl_multi_socket_action is refused by a guarded build (local_still_running
\* stays 0) and executed otherwise.
handle_curl_timeout(s, timeout_ms, depth) ==
    IF timeout_ms < 0
    THEN {[s EXCEPT !.timeout_timer = uv_timer_stop(@)]}
    ELSE IF timeout_ms = 0
    THEN LET acted == IF curl_guard THEN {[s |-> s, local_still_running |-> 0]}
                      ELSE {[s |-> p, local_still_running |-> StillRunning(p)] :
                              p \in Pump(s, Timeout, depth + 1)}
         IN  UNION {check_multi_info(
                        [q.s EXCEPT !.running_handles = q.local_still_running]) :
                    q \in acted}
    ELSE {[s EXCEPT !.timeout_timer = uv_timer_start(@, timeout_ms, 0)]}

\* libcurl's timer update at the end of an API call: it deletes the timer when no
\* transfer is left, and otherwise keeps the pending one or asks for a new one, an
\* immediate one (0) when it wants to be called again at once.
TimerUpdate(s, again, depth) ==
    IF InFlight(s) = {}
    THEN IF s.ctimer THEN handle_curl_timeout([s EXCEPT !.ctimer = FALSE], -1, depth)
         ELSE {s}
    ELSE (IF s.ctimer THEN {s} ELSE {})
         \cup handle_curl_timeout([s EXCEPT !.ctimer = TRUE], 1, depth)
         \cup (IF again /\ depth < MaxDepth
               THEN handle_curl_timeout([s EXCEPT !.ctimer = TRUE], 0, depth)
               ELSE {})

\* curl_multi_socket_action(curl_multi_handle, sockfd or CURL_SOCKET_TIMEOUT, ...).
Pump(s, trigger, depth) ==
    LET s0 == IF trigger.kind = "timeout" THEN [s EXCEPT !.ctimer = FALSE] ELSE s
    IN  UNION {TimerUpdate(p.s, p.again, depth) : p \in Progress(s0, trigger, depth)}

\* Faulty variant of PumpAndDrain: the handler returns to the reactor after the
\* pump, without check_multi_info.
PumpWithoutDrain(s, trigger) ==
    {[p EXCEPT !.running_handles = StillRunning(p)] : p \in Pump(s, trigger, 0)}

\* A handler's pump followed by its drain: running_handles = local_still_running;
\* check_multi_info().
PumpAndDrain(s, trigger) ==
    UNION {check_multi_info([p EXCEPT !.running_handles = StillRunning(p)]) :
           p \in Pump(s, trigger, 0)}

(***************************************************************************)
(* The program.                                                            *)
(***************************************************************************)

Init ==
    /\ pending \in {<<"download">>, <<"upload">>, <<"download", "upload">>}
    /\ num_connections \in 1..MaxConn
    /\ curl_guard \in BOOLEAN
    /\ pc = "main"
    /\ test = "none"
    /\ idx = 1
    /\ successfully_added_handles = 0
    /\ test_duration_timer = "off"
    /\ shared_upload_data = "none"
    /\ report = "none"
    /\ outcome = "none"
    /\ last = "other"
    /\ running_handles = 0
    /\ timeout_timer = <<>>
    /\ poll = [fd \in Conn |-> "absent"]
    /\ poll_handles = {}
    /\ socketp = [fd \in Conn |-> 0]
    /\ closing = 0
    /\ easy = [i \in Conn |-> "unused"]
    /\ result = [i \in Conn |-> "none"]
    /\ csock = [i \in Conn |-> "unopened"]
    /\ ctimer = FALSE
    /\ bytes_sent = [i \in Conn |-> 0]
    /\ total_downloaded_bytes = 0
    /\ msgs_read = 0
    /\ faults = 0

\* Faulty variant of DurationTimerRepeats: the upload run's timer repeats too.
DurationTimerAlwaysRepeats(t) == TRUE

\* uv_timer_start(&test_duration_timer, ...): the download run's keep-alive timer
\* repeats every 10 s, the upload run's fires once after 1 ms.
DurationTimerRepeats(t) == t = "download"

\* uv__loop_alive: uv_run(loop, UV_RUN_DEFAULT) goes on while this holds.
LoopAlive ==
    \/ test_duration_timer = "active"
    \/ uv_is_active(timeout_timer)
    \/ \E fd \in Conn : poll[fd] \in Interest
    \/ closing > 0

\* perform_download_test / perform_upload_test up to the setup loop.
StartTest ==
    /\ pc = "main"
    /\ pending # <<>>
    /\ test' = Head(pending)
    /\ pending' = Tail(pending)
    /\ \E malloc_ok \in BOOLEAN :
        LET kind == Head(pending)
            proceed == /\ num_connections <= MAX_CONNECTIONS
                       /\ (kind = "upload" => malloc_ok)
        IN  /\ (kind = "download" => malloc_ok)
            /\ shared_upload_data' =
                   IF kind = "upload" /\ malloc_ok
                   THEN IF proceed THEN "allocated" ELSE "freed"
                   ELSE "none"
            /\ test_duration_timer' = IF proceed THEN "active" ELSE test_duration_timer
            /\ pc' = IF proceed THEN "add" ELSE "main"
            /\ outcome' = IF proceed THEN "none" ELSE "rejected"
    /\ total_downloaded_bytes' =
           IF Head(pending) = "download" THEN 0 ELSE total_downloaded_bytes
    /\ idx' = 1
    /\ successfully_added_handles' = 0
    /\ report' = "none"
    /\ easy' = [i \in Conn |-> "unused"]
    /\ result' = [i \in Conn |-> "none"]
    /\ bytes_sent' = [i \in Conn |-> 0]
    /\ last' = "other"
    /\ UNCHANGED <<num_connections, curl_guard, running_handles,
                   timeout_timer, poll, poll_handles, socketp, closing, csock, ctimer, msgs_read, faults>>

\* One iteration of the setup loop: curl_easy_init, the curl_easy_setopt calls and
\* curl_multi_add_handle, which asks for an immediate timeout (timer callback, 0).
AddConnection ==
    /\ pc = "add"
    /\ idx <= num_connections
    /\ \E step \in {"init_failed", "setopt_failed", "add_failed", "added"} :
        IF step = "added"
        THEN /\ \E q \in handle_curl_timeout(
                            [State EXCEPT !.easy[idx] = "added", !.bytes_sent[idx] = 0,
                                          !.ctimer = TRUE], 0, 0) : Commit(q)
             /\ successfully_added_handles' = successfully_added_handles + 1
        ELSE /\ Commit([State EXCEPT !.easy[idx] =
                            IF step = "init_failed" THEN "unused" ELSE "failed"])
             /\ successfully_added_handles' = successfully_added_handles
    /\ idx' = idx + 1
    /\ last' = "add"
    /\ UNCHANGED <<pending, num_connections, curl_guard, pc, test, test_duration_timer,
                   shared_upload_data, report, outcome>>

\* No connection was added: the run is aborted before the event loop.  The
\* uv_run(loop, UV_RUN_NOWAIT) pass runs the pending close callbacks.
AbortRun ==
    /\ pc = "add"
    /\ idx > num_connections
    /\ successfully_added_handles = 0
    /\ test_duration_timer' = "closed"
    /\ closing' = 0
    /\ shared_upload_data' = IF test = "upload" THEN "freed" ELSE shared_upload_data
    /\ outcome' = "aborted"
    /\ pc' = "main"
    /\ last' = "other"
    /\ UNCHANGED <<pending, num_connections, curl_guard, test, idx,
                   successfully_added_handles, report, running_handles,
                   timeout_timer, poll, poll_handles, socketp, easy, result, csock, ctimer,
                   bytes_sent, total_downloaded_bytes, msgs_read, faults>>

\* Faulty variant of EnterLoop: the loop is entered with no connection added.
EnterLoopUnchecked ==
    /\ pc = "add"
    /\ idx > num_connections
    /\ running_handles' = successfully_added_handles
    /\ pc' = "loop"
    /\ last' = "other"
    /\ UNCHANGED <<pending, num_connections, curl_guard, test, idx,
                   successfully_added_handles, test_duration_timer,
                   shared_upload_data, report, outcome, timeout_timer, poll, poll_handles,
                   socketp,                    closing, easy, result, csock, ctimer, bytes_sent,
                   total_downloaded_bytes, msgs_read, faults>>

\* running_handles = successfully_added_handles; uv_run(loop, UV_RUN_DEFAULT).
EnterLoop ==
    /\ pc = "add"
    /\ idx > num_connections
    /\ successfully_added_handles # 0
    /\ running_handles' = successfully_added_handles
    /\ pc' = "loop"
    /\ last' = "other"
    /\ UNCHANGED <<pending, num_connections, curl_guard, test, idx,
                   successfully_added_handles, test_duration_timer,
                   shared_upload_data, report, outcome, timeout_timer, poll, poll_handles,
                   socketp,                    closing, easy, result, csock, ctimer, bytes_sent,
                   total_downloaded_bytes, msgs_read, faults>>

\* on_uv_curl_timeout: the one-shot timeout_timer fires.
OnUvCurlTimeout ==
    /\ pc = "loop"
    /\ uv_is_active(timeout_timer)
    /\ \E q \in PumpAndDrain([State EXCEPT !.timeout_timer = uv_timer_expire(@)],
                             Timeout) :
           Commit(q)
    /\ last' = "pump"
    /\ UNCHANGED runRest

\* Faulty variant of on_uv_socket_event: on an error status the handler closes
\* the watcher and returns.
on_uv_socket_event_closes(s, fd, status, events) ==
    IF status < 0
    THEN {curl_perform_socket_action(s, fd, "remove", "no").s}
    ELSE PumpAndDrain(s, SocketReady(fd, events))

\* on_uv_socket_event(handle, status, events): an error status is only printed;
\* curl_multi_socket_action for the handle's descriptor with the events as
\* flags, running_handles = local_still_running, check_multi_info().
on_uv_socket_event(s, fd, status, events) ==
    PumpAndDrain(s, SocketReady(fd, events))

\* libuv calls on_uv_socket_event: a watched descriptor is ready, or libuv
\* reports an error on it (status < 0, no events).
OnUvSocketEvent ==
    /\ pc = "loop"
    /\ \E fd \in Conn, status \in {0, -1}, events \in SUBSET {"readable", "writable"} :
        /\ poll[fd] \in Interest
        /\ IF status < 0 THEN events = {}
           ELSE /\ events # {}
                /\ events \subseteq
                       (IF poll[fd] \in {"in", "inout"} THEN {"readable"} ELSE {})
                       \cup (IF poll[fd] \in {"out", "inout"} THEN {"writable"} ELSE {})
        /\ \E q \in on_uv_socket_event(State, fd, status, events) : Commit(q)
    /\ last' = "pump"
    /\ UNCHANGED runRest

\* on_test_timeout_dummy: the run's keep-alive timer fires.
OnTestTimeoutDummy ==
    /\ pc = "loop"
    /\ test_duration_timer = "active"
    /\ test_duration_timer' = IF DurationTimerRepeats(test) THEN "active" ELSE "inactive"
    /\ last' = "other"
    /\ UNCHANGED <<pending, num_connections, curl_guard, pc, test, idx,
                   successfully_added_handles, shared_upload_data, report, outcome>>
    /\ UNCHANGED engVars

\* free_poll_handle: the loop runs the close callbacks of the closed watchers.
FreePollHandles ==
    /\ pc = "loop"
    /\ closing > 0
    /\ closing' = 0
    /\ last' = "other"
    /\ UNCHANGED runRest
    /\ UNCHANGED <<running_handles, timeout_timer, poll, poll_handles, socketp, easy, result, csock,
                   ctimer, bytes_sent, total_downloaded_bytes, msgs_read, faults>>

\* uv_run(loop, UV_RUN_DEFAULT) returns.
UvRunReturns ==
    /\ pc = "loop"
    /\ ~LoopAlive
    /\ pc' = "returned"
    /\ last' = "other"
    /\ UNCHANGED <<pending, num_connections, curl_guard, test, idx,
                   successfully_added_handles, test_duration_timer,
                   shared_upload_data, report, outcome>>
    /\ UNCHANGED engVars

RECURSIVE SumSent(_)
SumSent(S) ==
    IF S = {} THEN 0
    ELSE LET i == CHOOSE j \in S : TRUE IN bytes_sent[i] + SumSent(S \ {i})

\* The byte count a run reports: the global accumulator for a download, the sum of
\* bytes_sent over the stream contexts whose easy_handle is not NULL for an upload.
TotalBytes ==
    IF test = "download" THEN total_downloaded_bytes
    ELSE SumSent({i \in 1..num_connections : easy[i] \notin {"unused", "failed"}})

\* Run durations (test_end_time_ns - test_start_time_ns), in microseconds: around
\* the 1 ms threshold and beyond it.
Durations == {0, 999, 1000, 1001, 2000}

\* Faulty variant of speed_mbps: a run of exactly 1 ms gets a throughput.
speed_mbps_inclusive(total_bytes, duration_us) ==
    IF duration_us >= 1000 /\ total_bytes > 0
    THEN [num |-> total_bytes * 8 * 1000000, den |-> duration_us * (1000 * 1000)]
    ELSE [num |-> 0, den |-> 1]

\* speed_mbps_download / speed_mbps_upload, as the fraction num/den:
\* 0.0 unless actual_test_duration_s > 0.001 and the byte count is positive, else
\* (bytes * 8.0) / actual_test_duration_s / (1000.0 * 1000.0), where
\* actual_test_duration_s is duration_us / 1000000.
speed_mbps(total_bytes, duration_us) ==
    IF duration_us > 1000 /\ total_bytes > 0
    THEN [num |-> total_bytes * 8 * 1000000, den |-> duration_us * (1000 * 1000)]
    ELSE [num |-> 0, den |-> 1]

\* Faulty variant of CleanupHandles: the handles whose setup failed, released in
\* the setup loop already, are released again.
CleanupHandlesAgain(s) ==
    LET attached == {i \in Conn : s.easy[i] \in {"added", "done"}}
        t == FailAll(s, {i \in attached : s.easy[i] = "added"})
    IN  [t EXCEPT !.easy = [i \in Conn |->
                              IF i \in attached THEN "freed_in_multi"
                              ELSE IF s.easy[i] \in {"removed", "failed"} THEN "freed"
                              ELSE s.easy[i]],
                  !.result = s.result]

\* curl_easy_cleanup of every handle the run added.  A handle that is still
\* attached to the multi handle is detached by libcurl, which removes its socket.
CleanupHandles(s) ==
    LET attached == {i \in Conn : s.easy[i] \in {"added", "done"}}
        t == FailAll(s, {i \in attached : s.easy[i] = "added"})
    IN  [t EXCEPT !.easy = [i \in Conn |->
                              IF i \in attached THEN "freed_in_multi"
                              ELSE IF s.easy[i] = "removed" THEN "freed"
                              ELSE s.easy[i]],
                  !.result = s.result]

\* Faulty variant of FinishRun: the report shows the requested connection count.
FinishRunReportsRequested ==
    /\ pc = "returned"
    /\ test_duration_timer' = "closed"
    /\ \E d \in Durations :
           report' = [type |-> test, connections |-> num_connections,
                      total_bytes |-> TotalBytes, time_taken |-> d,
                      speed_mbps |-> speed_mbps(TotalBytes, d)]
    /\ outcome' = "reported"
    /\ Commit([CleanupHandles(State) EXCEPT !.running_handles = 0, !.closing = 0])
    /\ shared_upload_data' = IF test = "upload" THEN "freed" ELSE shared_upload_data
    /\ pc' = "main"
    /\ last' = "other"
    /\ UNCHANGED <<pending, num_connections, curl_guard, test, idx,
                   successfully_added_handles>>

\* perform_*_test after uv_run: the report, the cleanup of the easy handles and of
\* the upload buffer, running_handles = 0.
FinishRun ==
    /\ pc = "returned"
    /\ test_duration_timer' = "closed"
    /\ \E d \in Durations :
           report' = [type |-> test, connections |-> successfully_added_handles,
                      total_bytes |-> TotalBytes, time_taken |-> d,
                      speed_mbps |-> speed_mbps(TotalBytes, d)]
    /\ outcome' = "reported"
    /\ Commit([CleanupHandles(State) EXCEPT !.running_handles = 0, !.closing = 0])
    /\ shared_upload_data' = IF test = "upload" THEN "freed" ELSE shared_upload_data
    /\ pc' = "main"
    /\ last' = "other"
    /\ UNCHANGED <<pending, num_connections, curl_guard, test, idx,
                   successfully_added_handles>>

\* main after the tests: curl_multi_cleanup, the timeout_timer is stopped and closed.
MainCleanup ==
    /\ pc = "main"
    /\ pending = <<>>
    /\ pc' = "exit"
    /\ timeout_timer' = uv_timer_stop(timeout_timer)
    /\ closing' = 0
    /\ last' = "other"
    /\ UNCHANGED <<pending, num_connections, curl_guard, test, idx,
                   successfully_added_handles, test_duration_timer,
                   shared_upload_data, report, outcome>>
    /\ UNCHANGED <<running_handles, poll, poll_handles, socketp, easy, result, csock, ctimer,
                   bytes_sent, total_downloaded_bytes, msgs_read, faults>>

Next ==
    \/ StartTest
    \/ AddConnection
    \/ AbortRun
    \/ EnterLoop
    \/ OnUvCurlTimeout
    \/ OnUvSocketEvent
    \/ OnTestTimeoutDummy
    \/ FreePollHandles
    \/ UvRunReturns
    \/ FinishRun
    \/ MainCleanup

Spec == Init /\ [][Next]_vars

\* Registered transfers that have not completed.
NowInFlight == {i \in Conn : easy[i] = "added"}

\* The reactor keeps dispatching what is ready and the sequential code keeps running.
FairSpec == Spec /\ WF_vars(Next)

\* on_uv_curl_timeout when no transfer is in flight.
IdleTimeout == NowInFlight = {} /\ OnUvCurlTimeout

\* The weaker assumption: once no transfer is in flight the reactor runs each timer
\* that is due and each pending close callback, uv_run returns when nothing keeps
\* it alive, and the code after uv_run runs.  Nothing is assumed while a transfer
\* is in flight.
DrainedFairSpec ==
    /\ Spec
    /\ WF_vars(IdleTimeout)
    /\ WF_vars(OnTestTimeoutDummy)
    /\ WF_vars(FreePollHandles)
    /\ WF_vars(UvRunReturns)
    /\ WF_vars(FinishRun)

(***************************************************************************)
(* Properties.                                                             *)
(***************************************************************************)

\* The transfers of the run that were registered with the multi handle.
Registered == {i \in Conn : easy[i] \notin {"unused", "failed"}}

\* Registered transfers that completed (the subsystem reported them finished).
Completed == {i \in Conn : easy[i] \in {"done", "removed", "freed"}}

\* Every registered transfer has completed and drain has unregistered it.
AllDrained ==
    /\ successfully_added_handles >= 1
    /\ \A i \in Conn : easy[i] \in {"unused", "failed", "removed"}

\* C1: in a download run with a registered transfer, once every registered
\* transfer has completed and been drained, uv_run eventually returns.
C1_DownloadLoopReturns ==
    (test = "download" /\ pc = "loop" /\ AllDrained) ~> (pc # "loop")

\* C2: in an upload run with a registered transfer, once every registered
\* transfer has completed and been drained, uv_run eventually returns and the run
\* reports its result.
C2_UploadLoopReturns ==
    (test = "upload" /\ pc = "loop" /\ AllDrained) ~> (outcome = "reported")

C2_Witness ==
    /\ test = "upload"
    /\ outcome = "reported"
    /\ \E i \in Conn : easy[i] = "freed"
    /\ \A i \in Conn : easy[i] \in {"unused", "failed", "freed"}

\* C3: whenever uv_run returns, every transfer the run registered has completed
\* and has been removed from the multi handle.
C3_LoopExitSafe ==
    pc = "returned" => \A i \in Conn : easy[i] \in {"unused", "failed", "removed"}

\* C4: no easy handle is released (curl_easy_cleanup) while it is still registered
\* with the multi handle; drain removes handles and never releases them.
C4_ReleaseAfterUnregister ==
    \A i \in Conn : easy[i] # "freed_in_multi"

\* C5: running_handles is never negative.
C5_ActiveCountNonNegative ==
    running_handles >= 0

\* C6: after a pump followed by drain, running_handles is the number of transfers
\* that are registered and not completed.
C6_ActiveCountIsInFlight ==
    last = "pump" => running_handles = Cardinality(NowInFlight)

C8_AbortWithoutLoop ==
    /\ successfully_added_handles <= num_connections
    /\ (pc \in {"loop", "returned"} \/ outcome = "reported") =>
           successfully_added_handles >= 1
    /\ (pc \in {"main", "exit"} /\ test # "none" /\ outcome # "rejected"
            /\ successfully_added_handles = 0) =>
           (outcome = "aborted" /\ report = "none")

C8_Witness ==
    /\ outcome = "aborted"
    /\ num_connections = MaxConn
    /\ \E i \in Conn : easy[i] = "failed"

\* C9: the send cursor of every upload request stays within 0..buffer length and
\* never decreases during the run.
C9_CursorBounded ==
    [][\A i \in Conn :
          /\ 0 <= bytes_sent'[i]
          /\ bytes_sent'[i] <= BufLen
          /\ pc # "main" => bytes_sent'[i] >= bytes_sent[i]]_vars

C9_Witness ==
    /\ test = "upload"
    /\ \E i \in Conn : easy[i] = "added" /\ bytes_sent[i] = BufLen

\* C10 as stated: for a registered upload request, the cursor is at the end of the
\* buffer exactly when the request has completed.
C10_EndIffCompleted ==
    test = "upload" =>
        \A i \in Registered : (bytes_sent[i] = BufLen) <=> (i \in Completed)

\* C10 as amended: for a registered upload request, the cursor is at the end of the
\* buffer exactly when the read callback has nothing left to give: it then returns
\* 0 for every request size, and copies at least one byte otherwise.
C10_EndIffNoData ==
    test = "upload" =>
        \A i \in Registered :
            (bytes_sent[i] = BufLen) <=>
                (\A n \in 1..(BufLen + 1) : curl_read_callback(State, i, 1, n).ret = 0)

C10_Witness ==
    /\ test = "upload"
    /\ \E i \in Conn : easy[i] = "removed" /\ result[i] = "ok" /\ bytes_sent[i] = BufLen
    /\ \E i \in Conn : easy[i] = "removed" /\ result[i] = "fail" /\ bytes_sent[i] < BufLen

\* C11: check_multi_info called again right after a handler's or an inline pump's
\* drain, with no pump in between, changes nothing: running_handles, the handles
\* in the multi handle, the completion codes and the timeout timer stay as the
\* first call left them (msgs_read, the count of that one call, is 0).
C11_DrainIdempotent ==
    last \in {"pump", "add"} =>
        check_multi_info(State) = {[State EXCEPT !.msgs_read = 0]}

C11_Witness ==
    /\ last = "pump"
    /\ msgs_read = MaxConn
    /\ \A i \in Conn : easy[i] = "removed"
    /\ check_multi_info(State) = {[State EXCEPT !.msgs_read = 0]}

\* C12: a transfer that completed with a failure code adds nothing to the byte
\* count of its run: an upload run reports the bytes of its other registered
\* transfers only, and a download run in which every transfer failed has counted
\* no byte once all of them are drained.
C12_FailedContributeZero ==
    /\ (test = "upload" /\ outcome = "reported") =>
           report.total_bytes = SumSent({i \in Registered : result[i] # "fail"})
    /\ (test = "download" /\ pc = "loop" /\ AllDrained
            /\ \A i \in Registered : result[i] = "fail") =>
           total_downloaded_bytes = 0

\* C13: the run counts exactly the connections it registered; when the setup loop
\* ends with at least one of them the run is not aborted and enters the event
\* loop, whatever failed for the others; and a report shows the number of
\* registered connections.
C13_PartialRegistration ==
    [][/\ successfully_added_handles' = Cardinality(Registered')
       /\ (pc = "add" /\ pc' # "add" /\ successfully_added_handles >= 1) =>
              (pc' = "loop" /\ outcome' = "none")
       /\ outcome' = "reported" =>
              report'.connections = Cardinality(Registered')]_vars

C13_Witness ==
    /\ outcome = "reported"
    /\ num_connections >= 2
    /\ \E i \in Conn : easy[i] = "failed"
    /\ report.connections = num_connections - 1

\* C14: the reported throughput is 0 when the run took at most 1 ms or moved no
\* byte, and otherwise bytes * 8 / duration in seconds / 1,000,000, which is
\* bytes * 8 / duration in microseconds.
C14_Throughput ==
    outcome = "reported" =>
        LET speed == report.speed_mbps
            \* num/den with the common factor 1000000 taken out
            n == speed.num \div 1000000
            d == speed.den \div 1000000
        IN  IF report.time_taken <= 1000 \/ report.total_bytes = 0
            THEN speed.num = 0
            ELSE /\ speed.num = n * 1000000
                 /\ speed.den = d * 1000000
                 /\ n * report.time_taken = report.total_bytes * 8 * d

C14_Witness ==
    /\ outcome = "reported"
    /\ report.total_bytes > 0
    /\ report.time_taken = 1000
    /\ report.speed_mbps.num = 0

\* The state after k invocations of the read callback of stream i, each asking for
\* r bytes.
RECURSIVE ReadTimes(_, _, _, _)
ReadTimes(s, i, r, k) ==
    IF k = 0 THEN s ELSE ReadTimes(curl_read_callback(s, i, 1, r).s, i, r, k - 1)

\* The number of requests of r bytes that a buffer of len bytes fills.
Invocations(len, r) == (len + r - 1) \div r

\* C15: for every registered upload request and every request size r, the read
\* callback returns min(r, buffer length - cursor) and advances the cursor by
\* that, and changes nothing else; from there the cursor is at the end of the
\* buffer after exactly as many further invocations as the remaining bytes need,
\* not sooner, and every invocation after that returns 0 and leaves the state
\* as it is.  For 10,485,760 bytes and requests of 16,384 that number is 640.
C15_ReadCallbackExact ==
    /\ Invocations(10485760, 16384) = 640
    /\ 640 * 16384 = 10485760
    /\ test = "upload" =>
           \A i \in Registered : \A r \in 0..(BufLen + 1) :
               LET c == curl_read_callback(State, i, 1, r)
                   k == IF r = 0 THEN 0 ELSE Invocations(BufLen - bytes_sent[i], r)
                   atEnd == ReadTimes(State, i, r, k)
               IN  /\ c.ret = Min(r, BufLen - bytes_sent[i])
                   /\ c.s = [State EXCEPT !.bytes_sent[i] = bytes_sent[i] + c.ret]
                   /\ r > 0 =>
                          /\ atEnd.bytes_sent[i] = BufLen
                          /\ k > 0 => ReadTimes(State, i, r, k - 1).bytes_sent[i] < BufLen
                          /\ \A m \in 1..(BufLen + 1) :
                                 /\ curl_read_callback(atEnd, i, 1, m).ret = 0
                                 /\ curl_read_callback(atEnd, i, 1, m).s = atEnd

C15_Witness ==
    /\ test = "upload"
    /\ \E i \in Conn : /\ easy[i] = "added"
                       /\ bytes_sent[i] = BufLen
                       /\ curl_read_callback(State, i, 1, 1).ret = 0
    /\ \E j \in Conn : easy[j] = "added" /\ bytes_sent[j] = 0

\* The easy handle of request i has been released (curl_easy_cleanup).
Released(e) == e \in {"failed", "freed", "freed_in_multi"}

\* C16 as stated: within a run, a handle is released only if its request was
\* registered, and a request that has completed is not registered again.
C16_Lifecycle ==
    [][pc # "main" =>
          \A i \in Conn :
              /\ (Released(easy'[i]) /\ ~Released(easy[i])) =>
                     easy[i] \in {"added", "done", "removed"}
              /\ easy[i] \in {"done", "removed", "freed", "freed_in_multi"} =>
                     easy'[i] # "added"]_vars

\* C16 as amended: within a run, a request whose setup fails is released in its
\* own iteration of the setup loop without having been registered; a request is
\* registered only in its own iteration of the setup loop and only once; a
\* registered request is released only by the run's teardown after uv_run has
\* returned; a completed request never goes back to being in flight, and a
\* released one stays released.
C16_LifecycleOfRegistered ==
    [][pc # "main" =>
          \A i \in Conn :
              /\ (easy'[i] = "failed" /\ easy[i] # "failed") =>
                     (easy[i] = "unused" /\ pc = "add" /\ i = idx)
              /\ (easy'[i] \in {"added", "done", "removed"} /\ easy[i] = "unused") =>
                     (pc = "add" /\ i = idx)
              /\ (easy'[i] \in {"freed", "freed_in_multi"} /\ ~Released(easy[i])) =>
                     (easy[i] \in {"added", "done", "removed"} /\ pc = "returned")
              /\ easy[i] \in {"done", "removed"} =>
                     easy'[i] \in {"done", "removed", "freed", "freed_in_multi"}
              /\ Released(easy[i]) => easy'[i] = easy[i]
              /\ easy[i] = "added" => easy'[i] # "unused"]_vars

C16_Witness ==
    /\ outcome = "reported"
    /\ \E i \in Conn : easy[i] = "failed"
    /\ \E j \in Conn : easy[j] = "freed" /\ result[j] = "ok"

\* C17: when the shared upload buffer has been freed, every request of the run
\* either was never registered or had completed before its handle was released;
\* and once the buffer is freed no read callback moves a send cursor.
C17_BufferOutlivesRequests ==
    [][/\ shared_upload_data' = "freed" =>
              \A i \in Conn : easy'[i] \in {"unused", "failed", "freed"}
       /\ shared_upload_data = "freed" => bytes_sent' = bytes_sent]_vars

\* C18: whenever control is back in the reactor or in the sequential code, no
\* completion is waiting to be drained: every pump that completed a transfer, in
\* a handler or inline in the timer callback, was followed by check_multi_info
\* before it returned.
C18_PumpThenDrain ==
    \A i \in Conn : easy[i] # "done"

C18_Witness ==
    /\ last = "pump"
    /\ msgs_read = 1
    /\ \E i \in Conn : easy[i] = "removed"
    /\ \E j \in Conn : easy[j] = "added"

C20_SingleDeadline ==
    /\ Len(timeout_timer) <= 1
    /\ \A n \in 1..Len(timeout_timer) :
           timeout_timer[n].repeat = 0 /\ timeout_timer[n].timeout > 0

\* The timer callback asks for a new deadline while one is pending.
C20_Witness ==
    /\ pc = "loop"
    /\ Len(timeout_timer) = 1
    /\ \E i \in Conn : easy[i] = "added"
    /\ \E q \in handle_curl_timeout(State, 1, 0) :
           q.timeout_timer = <<[timeout |-> 1, repeat |-> 0]>>

\* C21: the timer callback called with a negative timeout leaves no firing of
\* timeout_timer pending and changes nothing else: it makes no pump and touches no
\* transfer, watcher or counter; and while no firing is pending on_uv_curl_timeout
\* cannot run.
C21_ArmNegativeDisarms ==
    /\ pc \in {"add", "loop"} =>
           handle_curl_timeout(State, -1, 0) = {[State EXCEPT !.timeout_timer = <<>>]}
    /\ ~uv_is_active(timeout_timer) => ~ENABLED OnUvCurlTimeout

\* libcurl has a deadline pending and an in-flight transfer, so that its next
\* timer update can be the deletion of the deadline.
C21_Witness ==
    /\ pc = "loop"
    /\ uv_is_active(timeout_timer)
    /\ ctimer
    /\ running_handles > 0
    /\ \A q \in handle_curl_timeout(State, -1, 0) :
           ~uv_is_active(q.timeout_timer) /\ q.running_handles = running_handles

\* C22: CURL_POLL_REMOVE for a descriptor that has a watcher stops it, closes it
\* (its memory is freed by the close callback) and clears libcurl's pointer to
\* it, and changes nothing else; for a descriptor without a watcher it changes
\* nothing; it returns success; and a descriptor whose watcher is not polling
\* gets no on_uv_socket_event.
C22_RemoveReleasesWatcher ==
    /\ \A fd \in Conn :
           LET c == curl_perform_socket_action(State, fd, "remove", "no")
           IN  /\ c.rc = 0
               /\ c.s = IF socketp[fd] # 0
                         THEN [State EXCEPT !.poll[fd] = "absent",
                                            !.poll_handles = @ \ {[id |-> socketp[fd], fd |-> fd]},
                                            !.socketp[fd] = 0,
                                            !.closing = closing + 1]
                         ELSE State
    /\ (\A fd \in Conn : poll[fd] \notin Interest) => ~ENABLED OnUvSocketEvent
    /\ \A fd \in Conn : socketp[fd] # 0 <=> poll[fd] # "absent"

C22_Witness ==
    /\ pc = "loop"
    /\ \E fd \in Conn :
           /\ easy[fd] = "added"
           /\ poll[fd] \in Interest
           /\ curl_perform_socket_action(State, fd, "remove", "no").s.poll[fd] = "absent"
    /\ \E fd \in Conn : easy[fd] = "removed" /\ poll[fd] = "absent" /\ socketp[fd] = 0

\* C23: a request other than a removal for a descriptor without a watcher
\* allocates exactly one uv_poll_t, initialises it on that descriptor and hands
\* it to libcurl as the descriptor's pointer; for a descriptor with a watcher it
\* allocates nothing and leaves the pointer alone.  So every descriptor has at
\* most one live uv_poll_t, the one libcurl's pointer names, and no uv_poll_t is
\* bound to two descriptors.
C23_OneWatcherPerDescriptor ==
    /\ \A fd \in Conn : \A action \in Interest \cup {"none"} :
           LET c == curl_perform_socket_action(State, fd, action, "no")
               new == c.s.poll_handles \ poll_handles
           IN  /\ c.rc = 0
               /\ poll_handles \subseteq c.s.poll_handles
               /\ \A other \in Conn \ {fd} : c.s.socketp[other] = socketp[other]
               /\ IF socketp[fd] = 0
                  THEN /\ Cardinality(new) = 1
                       /\ \A h \in new :
                              /\ h.fd = fd
                              /\ h.id \notin {g.id : g \in poll_handles}
                              /\ c.s.socketp[fd] = h.id
                  ELSE new = {} /\ c.s.socketp[fd] = socketp[fd]
    /\ \A h1 \in poll_handles : \A h2 \in poll_handles :
           h1.fd = h2.fd \/ h1.id = h2.id => h1 = h2
    /\ \A fd \in Conn :
           {h \in poll_handles : h.fd = fd} =
               IF socketp[fd] = 0 THEN {} ELSE {[id |-> socketp[fd], fd |-> fd]}

C23_Witness ==
    /\ pc = "loop"
    /\ Cardinality(poll_handles) = 2
    /\ \E fd \in Conn : socketp[fd] # fd /\ poll[fd] \in Interest /\ csock[fd] = poll[fd]
    /\ \E fd \in Conn : socketp[fd] # 0 /\ poll[fd] = "stopped"

\* C24: a request with interest I in which every call succeeds leaves the
\* descriptor's uv_poll_t polling for exactly I, whatever it polled for before,
\* and leaves the other descriptors' alone.
C24_InterestReplaced ==
    \A fd \in Conn : \A I \in Interest :
        LET c == curl_perform_socket_action(State, fd, I, "no")
        IN  /\ c.rc = 0
            /\ c.s.poll[fd] = I
            /\ \A other \in Conn \ {fd} : c.s.poll[other] = poll[other]

C24_Witness ==
    /\ pc = "loop"
    /\ \E fd \in Conn :
           /\ poll[fd] = "in"
           /\ curl_perform_socket_action(State, fd, "out", "no").s.poll[fd] = "out"
    /\ \E fd \in Conn : poll[fd] = "out" /\ csock[fd] = "out" /\ faults = 0

\* C25: a request with no events for a descriptor that has a watcher only stops
\* the uv_poll_t: the handle stays live and libcurl keeps its pointer; a later
\* request with events starts that same handle and allocates nothing.
C25_StopKeepsWatcher ==
    \A fd \in Conn :
        socketp[fd] # 0 =>
            LET c == curl_perform_socket_action(State, fd, "none", "no")
            IN  /\ c.rc = 0
                /\ c.s = [State EXCEPT !.poll[fd] = "stopped"]
                /\ \A I \in Interest :
                       LET d == curl_perform_socket_action(c.s, fd, I, "no")
                       IN  d.rc = 0 /\ d.s = [State EXCEPT !.poll[fd] = I]

C25_Witness ==
    /\ pc = "loop"
    /\ \E fd \in Conn :
           /\ easy[fd] = "added"
           /\ csock[fd] = "none"
           /\ poll[fd] = "stopped"
           /\ [id |-> socketp[fd], fd |-> fd] \in poll_handles
           /\ curl_perform_socket_action(State, fd, "in", "no").s.poll_handles = poll_handles

\* C26: when malloc, uv_poll_init_socket, curl_multi_assign or the first
\* uv_poll_start fails in a request for a descriptor without a watcher, the
\* callback returns a negative value, no uv_poll_t is live or stored for the
\* descriptor, and nothing else changes except that a handle that was already
\* initialised is closed.
C26_FailedWatchLeavesNothing ==
    \A fd \in Conn : \A action \in Interest \cup {"none"} :
        \A fault \in {"malloc", "init", "assign"} \cup
                      (IF action \in Interest THEN {"start"} ELSE {}) :
            socketp[fd] = 0 =>
                LET c == curl_perform_socket_action(State, fd, action, fault)
                IN  /\ c.rc < 0
                    /\ {h \in c.s.poll_handles : h.fd = fd} = {}
                    /\ c.s.socketp[fd] = 0
                    /\ c.s = [State EXCEPT !.closing =
                                  IF fault \in {"malloc", "init"} THEN @ ELSE @ + 1]

\* A deadline handler is about to run with a transfer whose socket libcurl has
\* not announced yet; in one of its outcomes the first request for that socket
\* fails after its uv_poll_t was initialised, the transfer fails, and the other
\* transfer keeps its watcher.
C26_Witness ==
    /\ pc = "loop"
    /\ uv_is_active(timeout_timer)
    /\ faults = 0
    /\ \E fd \in Conn : \E other \in Conn \ {fd} :
           /\ easy[fd] = "added" /\ csock[fd] = "unopened" /\ socketp[fd] = 0
           /\ easy[other] = "added" /\ poll[other] \in Interest
           /\ csock[other] = poll[other]
           /\ \E q \in PumpAndDrain([State EXCEPT !.timeout_timer = uv_timer_expire(@)],
                                     Timeout) :
                  /\ q.faults = 1
                  /\ q.closing = closing + 1
                  /\ q.result[fd] = "fail"
                  /\ q.socketp = socketp
                  /\ q.poll_handles = poll_handles
                  /\ q.csock[other] = csock[other]
                  /\ q.poll = poll

\* C27: on_uv_socket_event with an error status pumps and drains as for any
\* event of that descriptor (with no event flags), and does not touch the
\* watcher itself: the uv_poll_t changes only where libcurl made a request for
\* the descriptor in that call, and it leaves libcurl's table only when libcurl
\* removed the socket.
C27_ErrorEventKeepsWatcher ==
    \A fd \in Conn :
        pc = "loop" /\ poll[fd] \in Interest =>
            LET Q == on_uv_socket_event(State, fd, -1, {})
            IN  /\ Q = PumpAndDrain(State, SocketReady(fd, {}))
                /\ \E q \in Q : q.poll[fd] = poll[fd] /\ q.socketp[fd] = socketp[fd]
                /\ \A q \in Q :
                       /\ q.csock[fd] = csock[fd] =>
                              q.poll[fd] = poll[fd] /\ q.socketp[fd] = socketp[fd]
                       /\ q.socketp[fd] = 0 => q.csock[fd] = "unopened"
                       /\ q.running_handles = StillRunning(q) - q.msgs_read

C27_Witness ==
    /\ pc = "loop"
    /\ \E fd \in Conn :
           /\ poll[fd] \in Interest
           /\ easy[fd] = "added"
           /\ \E q \in on_uv_socket_event(State, fd, -1, {}) :
                  q.easy[fd] = "added" /\ q.poll[fd] = poll[fd] /\ q.socketp[fd] # 0
           /\ \E q \in on_uv_socket_event(State, fd, -1, {}) :
                  q.result[fd] = "fail" /\ q.socketp[fd] = 0 /\ q.msgs_read = 1

\* C28: check_multi_info stops an active timeout_timer only when no transfer
\* registered with the multi handle is still in flight: in a reactor handler
\* (deadline or socket event), a timer that is active after the pump and
\* inactive after the drain means that every registered transfer has completed.
C28_DeadlineKeptWhileInFlight ==
    LET fired == IF uv_is_active(timeout_timer)
                 THEN {<<[State EXCEPT !.timeout_timer = uv_timer_expire(@)], Timeout>>}
                 ELSE {}
        ready == {<<State, SocketReady(fd, {})>> : fd \in {i \in Conn : poll[i] \in Interest}}
    IN  pc = "loop" =>
            \A h \in fired \cup ready : \A p \in Pump(h[1], h[2], 0) :
                \A q \in check_multi_info([p EXCEPT !.running_handles = StillRunning(p)]) :
                    uv_is_active(p.timeout_timer) /\ ~uv_is_active(q.timeout_timer)
                        => InFlight(q) = {}

\* What curl_multi_socket_action works on: the transfers and their sockets.
Transfers(s) ==
    [easy |-> s.easy, result |-> s.result, csock |-> s.csock, poll |-> s.poll,
     bytes_sent |-> s.bytes_sent, total_downloaded_bytes |-> s.total_downloaded_bytes]

\* C29: curl_multi_socket_action does not run inside another libcurl call: when
\* libcurl asks for an immediate timeout (timer callback, 0) from inside
\* curl_multi_add_handle or from inside a curl_multi_socket_action of the
\* deadline handler, the callback returns with the transfers and their sockets
\* as they were; they move only after the outer call has returned.
C29_NoNestedPump ==
    /\ pc = "add" /\ idx <= num_connections =>
           LET reg == [State EXCEPT !.easy[idx] = "added", !.bytes_sent[idx] = 0,
                                    !.ctimer = TRUE]
           IN  \A q \in handle_curl_timeout(reg, 0, 0) : Transfers(q) = Transfers(reg)
    /\ pc = "loop" /\ uv_is_active(timeout_timer) /\ NowInFlight # {} =>
           LET mid == [State EXCEPT !.timeout_timer = uv_timer_expire(@),
                                    !.ctimer = TRUE]
           IN  \A q \in handle_curl_timeout(mid, 0, 0) : Transfers(q) = Transfers(mid)

\* C30: when the socket callback returns CURL_SOCKET_OK for a request with
\* events I, the descriptor's uv_poll_t polls for exactly I, whether or not the
\* descriptor had a watcher and whether or not uv_poll_start failed; so the
\* watcher of a transfer in flight polls for what libcurl asked last.
C30_SuccessMeansSubscribed ==
    /\ \A fd \in Conn : \A I \in Interest : \A fault \in {"no", "start"} :
           LET c == curl_perform_socket_action(State, fd, I, fault)
           IN  c.rc = 0 => c.s.poll[fd] = I
    /\ \A fd \in Conn :
           easy[fd] = "added" /\ csock[fd] \in Interest => poll[fd] = csock[fd]

====
